---- MODULE Spec2Model ----
(***************************************************************************)
(* A model of src/main.go: an HTTP server with three routes (/metric,      *)
(* /fibonacci, /nested), a background one-second timer loop that          *)
(* increments a counter, and a tracing pipeline (spans -> batch -> file).  *)
(*                                                                         *)
(* 64-bit machine words are kept at their width.  TLC's integers are       *)
(* narrower than 64 bits, so a uint64 is a tuple of NumLimbs 16-bit limbs, *)
(* least significant limb first, and all arithmetic on it wraps at 2^64.   *)
(* A string is a tuple of one-character strings.                           *)
(***************************************************************************)
EXTENDS Integers, Sequences, FiniteSets, TLC

\* ------------------------------------------------------------- bounds
\* Longest query value enumerated character by character.
MaxLen == 2
\* Deepest fibonacci call stack explored: a call with n > MaxDepth is
\* followed MaxDepth frames deep and no further.
MaxDepth == 11
\* Largest n sent to /fibonacci while requests run concurrently.
SmallN == 2
\* Number of timer expiries explored.
MaxTicks == 2

\* --------------------------------------------------- program constants
BitSize == 64
Base == 10
StatusOK == 200
StatusBadRequest == 400
ErrMsg == "n is not a number"

\* ------------------------------------------------------------ uint64
LimbBase == 2 ^ 16
NumLimbs == BitSize \div 16
Limbs == 1..NumLimbs

RECURSIVE Fill(_, _)
Fill(k, v) == IF k = 0 THEN <<>> ELSE <<v>> \o Fill(k - 1, v)

\* The uint64 of a natural number below 2^31.
U64(x) == <<x % LimbBase, x \div LimbBase>> \o Fill(NumLimbs - 2, 0)
Zero64 == U64(0)
MaxUint64 == Fill(NumLimbs, LimbBase - 1)

RECURSIVE AddFrom(_, _, _, _)
AddFrom(a, b, i, carry) ==
    IF i > NumLimbs THEN <<>>
    ELSE LET s == a[i] + b[i] + carry
         IN  <<s % LimbBase>> \o AddFrom(a, b, i + 1, s \div LimbBase)
\* a + b, wrapping at 2^64.
Add64(a, b) == AddFrom(a, b, 1, 0)

RECURSIVE NotFrom(_, _)
NotFrom(a, i) ==
    IF i > NumLimbs THEN <<>> ELSE <<LimbBase - 1 - a[i]>> \o NotFrom(a, i + 1)
\* -a and a - b, wrapping at 2^64 (two's complement).
Neg64(a) == Add64(NotFrom(a, 1), U64(1))
Sub64(a, b) == Add64(a, Neg64(b))

Lt64(a, b) ==
    \E i \in Limbs : a[i] < b[i] /\ \A j \in (i + 1)..NumLimbs : a[j] = b[j]
Le64(a, b) == a = b \/ Lt64(a, b)

RECURSIVE MulFrom(_, _, _, _)
MulFrom(a, k, i, carry) ==
    IF i > NumLimbs THEN <<>>
    ELSE LET p == a[i] * k + carry
         IN  <<p % LimbBase>> \o MulFrom(a, k, i + 1, p \div LimbBase)
\* a * k for a small k, wrapping at 2^64.
Mul64(a, k) == MulFrom(a, k, 1, 0)

RECURSIVE RemFrom(_, _, _)
RemFrom(a, k, i) ==
    IF i > NumLimbs THEN 0 ELSE (RemFrom(a, k, i + 1) * LimbBase + a[i]) % k
RECURSIVE DivFrom(_, _, _)
DivFrom(a, k, i) ==
    IF i > NumLimbs THEN <<>>
    ELSE <<(RemFrom(a, k, i + 1) * LimbBase + a[i]) \div k>> \o DivFrom(a, k, i + 1)
\* a / k and a % k for a small k.
Div64(a, k) == DivFrom(a, k, 1)
Mod64(a, k) == RemFrom(a, k, 1)

\* 1 << (BitSize - 1)
SignBit64 == Fill(NumLimbs - 1, 0) \o <<LimbBase \div 2>>

\* ----------------------------------------------------------- strconv
Digits == {"0", "1", "2", "3", "4", "5", "6", "7", "8", "9"}
DigitChar == <<"0", "1", "2", "3", "4", "5", "6", "7", "8", "9">>
DigitVal(c) == (CHOOSE d \in 1..Base : DigitChar[d] = c) - 1

ErrNil == "nil"
ErrSyntax == "ErrSyntax"
ErrRange == "ErrRange"

\* maxUint64/base + 1, the largest accumulator that can still take a digit
UintCutoff == Add64(Div64(MaxUint64, Base), U64(1))

RECURSIVE ParseDigits(_, _, _)
ParseDigits(s, i, n) ==
    IF i > Len(s) THEN [val |-> n, err |-> ErrNil]
    ELSE IF s[i] \notin Digits THEN [val |-> Zero64, err |-> ErrSyntax]
    ELSE IF ~Lt64(n, UintCutoff) THEN [val |-> MaxUint64, err |-> ErrRange]
    ELSE LET m == Mul64(n, Base)
             n1 == Add64(m, U64(DigitVal(s[i])))
         IN  IF Lt64(n1, m) THEN [val |-> MaxUint64, err |-> ErrRange]
             ELSE ParseDigits(s, i + 1, n1)

\* strconv.ParseUint(s, 10, 64)
ParseUint(s) ==
    IF Len(s) = 0 THEN [val |-> Zero64, err |-> ErrSyntax]
    ELSE ParseDigits(s, 1, Zero64)

\* An int64 is a sign and a magnitude; zero is never negative.
Int64(neg, mag) == [neg |-> neg /\ mag # Zero64, mag |-> mag]

\* ParseInt on a non-empty s: the sign, the digits, the int64 range.
ParseSigned(s) ==
    LET neg == s[1] = "-"
        r == ParseUint(IF s[1] \in {"+", "-"} THEN Tail(s) ELSE s)
    IN  IF r.err = ErrSyntax
            THEN [val |-> Int64(FALSE, Zero64), err |-> ErrSyntax]
        ELSE IF r.err = ErrRange
            THEN [val |-> Int64(neg, IF neg THEN SignBit64
                                     ELSE Sub64(SignBit64, U64(1))),
                  err |-> ErrRange]
        ELSE IF ~neg /\ ~Lt64(r.val, SignBit64)
            THEN [val |-> Int64(FALSE, Sub64(SignBit64, U64(1))),
                  err |-> ErrRange]
        ELSE IF neg /\ Lt64(SignBit64, r.val)
            THEN [val |-> Int64(TRUE, SignBit64), err |-> ErrRange]
        ELSE [val |-> Int64(neg, r.val), err |-> ErrNil]

ParseIntEmptyIsZero(s) ==
    IF Len(s) = 0 THEN [val |-> Int64(FALSE, Zero64), err |-> ErrNil]
    ELSE ParseSigned(s)
\* strconv.ParseInt(s, 10, 64)
ParseInt(s) ==
    IF Len(s) = 0 THEN [val |-> Int64(FALSE, Zero64), err |-> ErrSyntax]
    ELSE ParseSigned(s)

\* uint64(x) of an int64 x: a negative x becomes 2^64 - |x|.
ToUint64(x) == IF x.neg THEN Neg64(x.mag) ELSE x.mag

RECURSIVE FormatDigits(_)
FormatDigits(x) ==
    IF x = Zero64 THEN <<>>
    ELSE FormatDigits(Div64(x, Base)) \o <<DigitChar[Mod64(x, Base) + 1]>>
RECURSIVE Reverse(_)
Reverse(s) == IF s = <<>> THEN <<>> ELSE Reverse(Tail(s)) \o <<Head(s)>>
FormatUintReversed(x) == IF x = Zero64 THEN <<"0">> ELSE Reverse(FormatDigits(x))
\* strconv.FormatUint(x, 10)
FormatUint(x) == IF x = Zero64 THEN <<"0">> ELSE FormatDigits(x)


\* ------------------------------------------------------------- inputs
Conns == {"c1", "c2"}
Paths == {"/metric", "/fibonacci", "/nested"}
Chars == Digits \cup {"-", "+", "a"}
Strings(k) == UNION {[1..m -> Chars] : m \in 0..k}
Lit(ds) == [i \in 1..Len(ds) |-> DigitChar[ds[i] + 1]]
\* 2^63 - 1, 2^63, -2^63, -2^63 - 1, 2^64 - 1 and 2^64 as decimal text
BigQueries ==
    { Lit(<<9,2,2,3,3,7,2,0,3,6,8,5,4,7,7,5,8,0,7>>),
      Lit(<<9,2,2,3,3,7,2,0,3,6,8,5,4,7,7,5,8,0,8>>),
      <<"-">> \o Lit(<<9,2,2,3,3,7,2,0,3,6,8,5,4,7,7,5,8,0,8>>),
      <<"-">> \o Lit(<<9,2,2,3,3,7,2,0,3,6,8,5,4,7,7,5,8,0,9>>),
      Lit(<<1,8,4,4,6,7,4,4,0,7,3,7,0,9,5,5,1,6,1,5>>),
      Lit(<<1,8,4,4,6,7,4,4,0,7,3,7,0,9,5,5,1,6,1,6>>) }
\* Every query value of at most MaxLen characters, and the 64-bit edges.
AllQueries == Strings(MaxLen) \cup BigQueries
\* The query values sent while requests run concurrently.
SmallQueries == {<<>>, <<"a">>} \cup {<<DigitChar[k + 1]>> : k \in 0..SmallN}

\* -------------------------------------------------------------- state
VARIABLES
    mainPc,      \* where main() is: a startup step, "serving" or "exited"
    exitCause,   \* the failure that ended the process, or "none"
    registered,  \* prometheus.Register succeeded
    deferred,    \* main's deferred calls, in the order they were deferred
    fileState,   \* traces.txt: "none", "open" or "closed"
    exporter,    \* the exporter was constructed
    provider,    \* the tracer provider: "none", "running" or "shutdown"
    routes,      \* the paths registered with http.Handle
    listening,   \* the listener is bound
    timerPc,     \* the timer goroutine: "none", "new" or "loop"
    timerArmed,  \* the timer is running towards its next expiry
    timerC,      \* an expiry is waiting in the timer's channel
    fired,       \* number of timer expiries so far
    counter,     \* countPerSec{id="1",database="db1"}
    batch,       \* ended spans held by the batch processor
    file,        \* spans written to traces.txt
    reqPc,       \* per connection, where its handler is
    reqPath,     \* per connection, the request's path
    reqN,        \* per connection, the value of the query parameter n
    reqArg,      \* per connection, the argument the handler gave fibonacci
    stack,       \* per connection, the fibonacci call stack
    spans,       \* per connection, the spans started for its request
    ret,         \* per connection, the handler's local ret
    resp         \* per connection, the calls made on the ResponseWriter

mainVars == <<mainPc, exitCause, registered, deferred, fileState, exporter,
              provider, routes, listening>>
timerVars == <<timerPc, timerArmed, timerC, fired, counter>>
traceVars == <<batch, file>>
reqVars == <<reqPc, reqPath, reqN, reqArg, stack, spans, ret, resp>>
vars == <<mainVars, timerVars, traceVars, reqVars>>

\* No call of fibonacci yet (a uint64 has NumLimbs limbs).
NoArg == <<>>

InitRequests ==
    /\ reqPc = [c \in Conns |-> "idle"]
    /\ reqPath = [c \in Conns |-> ""]
    /\ reqN = [c \in Conns |-> <<>>]
    /\ reqArg = [c \in Conns |-> NoArg]
    /\ stack = [c \in Conns |-> <<>>]
    /\ spans = [c \in Conns |-> <<>>]
    /\ ret = [c \in Conns |-> Zero64]
    /\ resp = [c \in Conns |-> <<>>]

\* The state when main() is entered.
Init ==
    /\ mainPc = "register"
    /\ exitCause = "none"
    /\ registered = FALSE
    /\ deferred = <<>>
    /\ fileState = "none"
    /\ exporter = FALSE
    /\ provider = "none"
    /\ routes = {}
    /\ listening = FALSE
    /\ timerPc = "none"
    /\ timerArmed = FALSE
    /\ timerC = FALSE
    /\ fired = 0
    /\ counter = 0
    /\ batch = {}
    /\ file = {}
    /\ InitRequests

\* The process runs until a panic or os.Exit.
Alive == mainPc # "exited"

\* ------------------------------------------------------------- main()
\* panic(err): the deferred calls run (last deferred first), then the
\* process ends.
Panic(next) == "exited"
\* log.Fatal / log.Fatalln: os.Exit(1); no deferred call runs.
FatalContinues(next) == next
Fatal(next) == "exited"

RunsOnPanic(call) == \E i \in 1..Len(deferred) : deferred[i] = call

MainRegister ==
    /\ mainPc = "register"
    /\ \/ /\ registered' = TRUE
          /\ mainPc' = "spawn"
          /\ UNCHANGED <<exitCause, fileState, provider>>
       \/ /\ exitCause' = "register"
          /\ mainPc' = Panic("spawn")
          /\ provider' = IF RunsOnPanic("tracerProvider.Shutdown")
                         THEN "shutdown" ELSE provider
          /\ fileState' = IF RunsOnPanic("f.Close") THEN "closed" ELSE fileState
          /\ UNCHANGED registered
    /\ UNCHANGED <<deferred, exporter, routes, listening,
                   timerVars, traceVars, reqVars>>

MainSpawn ==
    /\ mainPc = "spawn"
    /\ timerPc' = "new"
    /\ mainPc' = "create"
    /\ UNCHANGED <<exitCause, registered, deferred, fileState, exporter, provider,
                   routes, listening, timerArmed, timerC, fired, counter,
                   traceVars, reqVars>>

MainCreate ==
    /\ mainPc = "create"
    /\ \/ /\ fileState' = "open"
          /\ deferred' = Append(deferred, "f.Close")
          /\ mainPc' = "exporter"
          /\ UNCHANGED exitCause
       \/ /\ exitCause' = "create"
          /\ mainPc' = Fatal("exporter")
          /\ UNCHANGED <<fileState, deferred>>
    /\ UNCHANGED <<registered, exporter, provider, routes, listening,
                   timerVars, traceVars, reqVars>>

MainExporter ==
    /\ mainPc = "exporter"
    /\ \/ /\ exporter' = TRUE
          /\ mainPc' = "provider"
          /\ UNCHANGED exitCause
       \/ /\ exitCause' = "exporter"
          /\ mainPc' = Fatal("provider")
          /\ UNCHANGED exporter
    /\ UNCHANGED <<registered, deferred, fileState, provider, routes, listening,
                   timerVars, traceVars, reqVars>>

MainProvider ==
    /\ mainPc = "provider"
    /\ provider' = "running"
    /\ deferred' = Append(deferred, "tracerProvider.Shutdown")
    /\ mainPc' = "handle"
    /\ UNCHANGED <<exitCause, registered, fileState, exporter, routes, listening,
                   timerVars, traceVars, reqVars>>

MainHandle ==
    /\ mainPc = "handle"
    /\ routes' = routes \cup Paths
    /\ mainPc' = "listen"
    /\ UNCHANGED <<exitCause, registered, deferred, fileState, exporter, provider,
                   listening, timerVars, traceVars, reqVars>>

\* http.ListenAndServe binds the listener, or fails at once.
MainListen ==
    /\ mainPc = "listen"
    /\ \/ /\ listening' = TRUE
          /\ mainPc' = "serving"
          /\ UNCHANGED exitCause
       \/ /\ exitCause' = "listen"
          /\ mainPc' = Fatal("return")
          /\ UNCHANGED listening
    /\ UNCHANGED <<registered, deferred, fileState, exporter, provider, routes,
                   timerVars, traceVars, reqVars>>

\* http.ListenAndServe returns only with an error: the server stopped.
MainServeError ==
    /\ mainPc = "serving"
    /\ exitCause' = "serve"
    /\ mainPc' = Fatal("return")
    /\ UNCHANGED <<registered, deferred, fileState, exporter, provider, routes,
                   listening, timerVars, traceVars, reqVars>>

\* ---------------------------------------------------- timer goroutine
\* countCollector.WithLabelValues("1", "db1").Inc()
IncTwice(v) == v + 2
Inc(v) == v + 1

TimerNew ==
    /\ Alive
    /\ timerPc = "new"
    /\ timerArmed' = TRUE
    /\ timerPc' = "loop"
    /\ UNCHANGED <<timerC, fired, counter, mainVars, traceVars, reqVars>>

\* One second has passed on an armed timer.
TimerFire ==
    /\ Alive
    /\ timerArmed
    /\ fired < MaxTicks
    /\ timerArmed' = FALSE
    /\ timerC' = TRUE
    /\ fired' = fired + 1
    /\ UNCHANGED <<timerPc, counter, mainVars, traceVars, reqVars>>

\* One iteration of the loop: receive the expiry, Inc, Reset.
TimerTick ==
    /\ Alive
    /\ timerPc = "loop"
    /\ timerC
    /\ timerC' = FALSE
    /\ counter' = Inc(counter)
    /\ timerArmed' = TRUE
    /\ UNCHANGED <<timerPc, fired, mainVars, traceVars, reqVars>>

\* ---------------------------------------------------- batch processor
\* The batch span processor exports what it holds to the exporter's writer.
Flush ==
    /\ Alive
    /\ provider = "running"
    /\ fileState = "open"
    /\ batch # {}
    /\ file' = file \cup batch
    /\ batch' = {}
    /\ UNCHANGED <<mainVars, timerVars, reqVars>>

\* ------------------------------------------------------------ tracing
RootCtx == 0

\* Tracer.Start(ctx, name): a new span whose parent is the span ctx carries.
StartSpan(c, ctx, name) ==
    Append(spans[c], [name |-> name, parent |-> ctx, ends |-> 0])
\* span.End() on the i-th span of connection c.
EndSpan(c, i) == [spans[c] EXCEPT ![i].ends = @ + 1]

\* ----------------------------------------------------- ResponseWriter
WriteHeader(code) == [op |-> "WriteHeader", code |-> code]
Write(data) == [op |-> "Write", data |-> data]
HeaderWritten(log) == \E i \in 1..Len(log) : log[i].op = "WriteHeader"
\* When a handler returns without having written a header, net/http sends 200.
FinishRequest(log) ==
    IF HeaderWritten(log) THEN log ELSE log \o <<WriteHeader(StatusOK)>>

\* The status the client receives and the body it reads.
Status(c) ==
    LET i == CHOOSE i \in 1..Len(resp[c]) :
                 /\ resp[c][i].op = "WriteHeader"
                 /\ \A j \in 1..(i - 1) : resp[c][j].op # "WriteHeader"
    IN  resp[c][i].code
RECURSIVE BodyOf(_)
BodyOf(log) ==
    IF log = <<>> THEN <<>>
    ELSE (IF Head(log).op = "Write" THEN Head(log).data ELSE <<>>) \o BodyOf(Tail(log))
Body(c) == BodyOf(resp[c])

\* ------------------------------------------------------------ requests
\* The server hands a request to the handler registered for its path.
Accept(c, path, q) ==
    /\ mainPc = "serving"
    /\ path \in routes
    /\ reqPc[c] = "idle"
    /\ reqPc' = [reqPc EXCEPT ![c] = path]
    /\ reqPath' = [reqPath EXCEPT ![c] = path]
    /\ reqN' = [reqN EXCEPT ![c] = q]
    /\ UNCHANGED <<reqArg, stack, spans, ret, resp, mainVars, timerVars, traceVars>>

\* promhttp.Handler(): the registry's metrics; countPerSec has a sample once
\* its labelled child exists.
ServeMetric(c) ==
    /\ Alive
    /\ reqPc[c] = "/metric"
    /\ resp' = [resp EXCEPT ![c] =
                   <<WriteHeader(StatusOK),
                     Write(IF counter = 0 THEN <<>>
                           ELSE <<"countPerSec{id=1,database=db1}", counter>>)>>]
    /\ reqPc' = [reqPc EXCEPT ![c] = "done"]
    /\ UNCHANGED <<reqPath, reqN, reqArg, stack, spans, ret,
                   mainVars, timerVars, traceVars>>

\* ---------------------------------------------------------- fibonacci
\* fmt.Sprintf("fibonacci-%d", n)
SpanName(n) == <<"fibonacci-">> \o FormatUint(n)
\* n <= 1
IsBase(n) == Le64(n, U64(1))
\* fibonacci(ctx, n-1) + fibonacci(ctx, n-2)
FibSumFirstOnly(a, b) == Add64(a, a)
FibSum(a, b) == Add64(a, b)

\* The order of a call's steps: where it goes after the step at pc.
\*   "start"  Start the span          "end"    span.End()
\*   "call1"  call fibonacci(n-1)     "wait1"  ... which has returned
\*   "call2"  call fibonacci(n-2)     "wait2"  ... which has returned
\*   "ret"    return
FibFlowEndLast(pc, base) ==
    CASE pc = "start" -> IF base THEN "end" ELSE "call1"
      [] pc = "wait1" -> "call2"
      [] pc = "wait2" -> "end"
      [] pc = "end" -> "ret"
FibFlowNoEnd(pc, base) ==
    CASE pc = "start" -> IF base THEN "end" ELSE "call1"
      [] pc = "end" -> "ret"
      [] pc = "wait1" -> "call2"
      [] pc = "wait2" -> "ret"
FibFlow(pc, base) ==
    CASE pc = "start" -> "end"
      [] pc = "end" -> IF base THEN "ret" ELSE "call1"
      [] pc = "wait1" -> "call2"
      [] pc = "wait2" -> "ret"

Frame(n, ctx) ==
    [n |-> n, pc |-> "start", ctx |-> ctx, span |-> 0, a |-> Zero64, val |-> Zero64]
Top(c) == stack[c][Len(stack[c])]
SetTop(c, f) == [stack EXCEPT ![c][Len(stack[c])] = f]
Running(c) == Alive /\ reqPc[c] = "fib" /\ stack[c] # <<>>

\* The handler's parse of n, its error answer, and its call of fibonacci.
FibParse(c) ==
    /\ Alive
    /\ reqPc[c] = "/fibonacci"
    /\ LET r == ParseInt(reqN[c]) IN
       \/ /\ r.err # ErrNil
          /\ resp' = [resp EXCEPT ![c] =
                         FinishRequest(<<WriteHeader(StatusBadRequest),
                                         Write(<<ErrMsg>>)>>)]
          /\ reqPc' = [reqPc EXCEPT ![c] = "done"]
          /\ UNCHANGED <<reqArg, stack>>
       \/ /\ r.err = ErrNil
          /\ reqArg' = [reqArg EXCEPT ![c] = ToUint64(r.val)]
          /\ stack' = [stack EXCEPT ![c] = <<Frame(ToUint64(r.val), RootCtx)>>]
          /\ reqPc' = [reqPc EXCEPT ![c] = "fib"]
          /\ UNCHANGED resp
    /\ UNCHANGED <<reqPath, reqN, spans, ret, mainVars, timerVars, traceVars>>

\* Start the span "fibonacci-n" in ctx and set its attribute.
FibStart(c) ==
    /\ Running(c)
    /\ Top(c).pc = "start"
    /\ spans' = [spans EXCEPT ![c] = StartSpan(c, Top(c).ctx, SpanName(Top(c).n))]
    /\ stack' = SetTop(c, [Top(c) EXCEPT !.span = Len(spans[c]) + 1,
                                         !.ctx = Len(spans[c]) + 1,
                                         !.pc = FibFlow("start", IsBase(Top(c).n))])
    /\ UNCHANGED <<reqPc, reqPath, reqN, reqArg, ret, resp,
                   mainVars, timerVars, traceVars>>

\* span.End(), in the base case followed by return n.
FibEnd(c) ==
    /\ Running(c)
    /\ Top(c).pc = "end"
    /\ spans' = [spans EXCEPT ![c] = EndSpan(c, Top(c).span)]
    /\ batch' = batch \cup {<<c, Top(c).span>>}
    /\ stack' = SetTop(c, [Top(c) EXCEPT
                    !.val = IF IsBase(Top(c).n) THEN Top(c).n ELSE @,
                    !.pc = FibFlow("end", IsBase(Top(c).n))])
    /\ UNCHANGED <<file, reqPc, reqPath, reqN, reqArg, ret, resp, mainVars, timerVars>>

\* Call fibonacci(ctx, n-k): k is 1 for the first operand, 2 for the second.
FibCall(c, k) ==
    /\ Running(c)
    /\ Top(c).pc = (IF k = 1 THEN "call1" ELSE "call2")
    /\ Len(stack[c]) < MaxDepth
    /\ stack' = [stack EXCEPT ![c] =
                    Append(SetTop(c, [Top(c) EXCEPT
                               !.pc = IF k = 1 THEN "wait1" ELSE "wait2"])[c],
                           Frame(Sub64(Top(c).n, U64(k)), Top(c).ctx))]
    /\ UNCHANGED <<reqPc, reqPath, reqN, reqArg, spans, ret, resp,
                   mainVars, timerVars, traceVars>>

\* A call returns: to the call that made it, or to the handler.
FibReturn(c) ==
    /\ Running(c)
    /\ Top(c).pc = "ret"
    /\ \/ /\ Len(stack[c]) = 1
          /\ stack' = [stack EXCEPT ![c] = <<>>]
          /\ ret' = [ret EXCEPT ![c] = Top(c).val]
          /\ reqPc' = [reqPc EXCEPT ![c] = "write"]
       \/ /\ Len(stack[c]) > 1
          /\ LET caller == stack[c][Len(stack[c]) - 1]
                 rest == SubSeq(stack[c], 1, Len(stack[c]) - 2)
             IN  stack' = [stack EXCEPT ![c] = Append(rest,
                     IF caller.pc = "wait1"
                     THEN [caller EXCEPT !.a = Top(c).val,
                                         !.pc = FibFlow("wait1", FALSE)]
                     ELSE [caller EXCEPT !.val = FibSum(caller.a, Top(c).val),
                                         !.pc = FibFlow("wait2", FALSE)])]
          /\ UNCHANGED <<ret, reqPc>>
    /\ UNCHANGED <<reqPath, reqN, reqArg, spans, resp, mainVars, timerVars, traceVars>>

\* The handler writes the status and the result.
FibWrite(c) ==
    /\ Alive
    /\ reqPc[c] = "write"
    /\ resp' = [resp EXCEPT ![c] =
                   FinishRequest(<<WriteHeader(StatusOK), Write(FormatUint(ret[c]))>>)]
    /\ reqPc' = [reqPc EXCEPT ![c] = "done"]
    /\ UNCHANGED <<reqPath, reqN, reqArg, stack, spans, ret,
                   mainVars, timerVars, traceVars>>

\* ------------------------------------------------------------- nested
ParentIdx == 1
ChildIdx == 2
\* The context the closure is called with: the one holding the parent span.
ChildCtxRoot(c) == RootCtx
ChildCtx(c) == ParentIdx

\* Start "parent" in the request's context, add its event and attribute.
NestedStartParent(c) ==
    /\ Alive
    /\ reqPc[c] = "/nested"
    /\ spans' = [spans EXCEPT ![c] = StartSpan(c, RootCtx, <<"parent">>)]
    /\ reqPc' = [reqPc EXCEPT ![c] = "closure"]
    /\ UNCHANGED <<reqPath, reqN, reqArg, stack, ret, resp,
                   mainVars, timerVars, traceVars>>

\* Inside the closure: start "child" and set its attribute.
NestedStartChild(c) ==
    /\ Alive
    /\ reqPc[c] = "closure"
    /\ spans' = [spans EXCEPT ![c] = StartSpan(c, ChildCtx(c), <<"child">>)]
    /\ reqPc' = [reqPc EXCEPT ![c] = "childEnd"]
    /\ UNCHANGED <<reqPath, reqN, reqArg, stack, ret, resp,
                   mainVars, timerVars, traceVars>>

\* The closure returns: its deferred span.End() runs.
NestedEndChild(c) ==
    /\ Alive
    /\ reqPc[c] = "childEnd"
    /\ spans' = [spans EXCEPT ![c] = EndSpan(c, ChildIdx)]
    /\ batch' = batch \cup {<<c, ChildIdx>>}
    /\ reqPc' = [reqPc EXCEPT ![c] = "parentEnd"]
    /\ UNCHANGED <<file, reqPath, reqN, reqArg, stack, ret, resp, mainVars, timerVars>>

\* The handler returns: its deferred span.End() runs, and the server
\* completes the response.
NestedEndParent(c) ==
    /\ Alive
    /\ reqPc[c] = "parentEnd"
    /\ spans' = [spans EXCEPT ![c] = EndSpan(c, ParentIdx)]
    /\ batch' = batch \cup {<<c, ParentIdx>>}
    /\ resp' = [resp EXCEPT ![c] = FinishRequest(resp[c])]
    /\ reqPc' = [reqPc EXCEPT ![c] = "done"]
    /\ UNCHANGED <<file, reqPath, reqN, reqArg, stack, ret, mainVars, timerVars>>

\* ------------------------------------------------------ specifications
Handle(c) ==
    \/ ServeMetric(c)
    \/ FibParse(c)
    \/ FibStart(c)
    \/ FibEnd(c)
    \/ FibCall(c, 1)
    \/ FibCall(c, 2)
    \/ FibReturn(c)
    \/ FibWrite(c)
    \/ NestedStartParent(c)
    \/ NestedStartChild(c)
    \/ NestedEndChild(c)
    \/ NestedEndParent(c)

\* The whole program: startup, the timer goroutine, the batch processor and
\* concurrent requests.
Next ==
    \/ MainRegister
    \/ MainSpawn
    \/ MainCreate
    \/ MainExporter
    \/ MainProvider
    \/ MainHandle
    \/ MainListen
    \/ MainServeError
    \/ TimerNew
    \/ TimerFire
    \/ TimerTick
    \/ Flush
    \/ \E c \in Conns, path \in Paths, q \in SmallQueries : Accept(c, path, q)
    \/ \E c \in Conns : Handle(c)

Spec == Init /\ [][Next]_vars

\* One /fibonacci request on a server that has started, for every query
\* value of AllQueries.
FibConn == CHOOSE c \in Conns : TRUE

InitFib ==
    /\ mainPc = "serving"
    /\ exitCause = "none"
    /\ registered = TRUE
    /\ deferred = <<"f.Close", "tracerProvider.Shutdown">>
    /\ fileState = "open"
    /\ exporter = TRUE
    /\ provider = "running"
    /\ routes = Paths
    /\ listening = TRUE
    /\ timerPc = "loop"
    /\ timerArmed = TRUE
    /\ timerC = FALSE
    /\ fired = 0
    /\ counter = 0
    /\ batch = {}
    /\ file = {}
    /\ InitRequests

NextFib ==
    \/ \E q \in AllQueries : Accept(FibConn, "/fibonacci", q)
    \/ FibParse(FibConn)
    \/ FibStart(FibConn)
    \/ FibEnd(FibConn)
    \/ FibCall(FibConn, 1)
    \/ FibCall(FibConn, 2)
    \/ FibReturn(FibConn)
    \/ FibWrite(FibConn)

SpecFib == InitFib /\ [][NextFib]_vars

\* --------------------------------------------- reference definitions
\* The Fibonacci numbers: F(0)=0, F(1)=1, F(n)=F(n-1)+F(n-2).
FibRef[n \in Nat] == IF n < 2 THEN n ELSE FibRef[n - 1] + FibRef[n - 2]

\* The decimal text of a natural number.
RECURSIVE DecText(_)
DecText(k) ==
    IF k < 10 THEN <<DigitChar[k + 1]>>
    ELSE DecText(k \div 10) \o <<DigitChar[(k % 10) + 1]>>

\* s is a decimal non-negative integer: one or more digits, no sign.
IsDecimalNat(s) == Len(s) > 0 /\ \A i \in 1..Len(s) : s[i] \in Digits
\* s is a decimal integer with an optional sign.
IsDecimalInt(s) ==
    \/ IsDecimalNat(s)
    \/ Len(s) > 1 /\ s[1] \in {"+", "-"} /\ IsDecimalNat(Tail(s))
\* s denotes a non-negative integer: unsigned, +digits, or -0.
DenotesNat(s) ==
    \/ IsDecimalNat(s)
    \/ Len(s) > 1 /\ s[1] = "+" /\ IsDecimalNat(Tail(s))
    \/ Len(s) > 1 /\ s[1] = "-" /\ \A i \in 2..Len(s) : s[i] = "0"

RECURSIVE StripZeros(_)
StripZeros(s) == IF Len(s) > 1 /\ s[1] = "0" THEN StripZeros(Tail(s)) ELSE s
\* The digits of the integer s denotes, without sign or leading zeros.
Canonical(s) == StripZeros(IF s[1] \in {"+", "-"} THEN Tail(s) ELSE s)

\* The value of a short digit string.
RECURSIVE NatValue(_)
NatValue(s) ==
    IF Len(s) = 0 THEN 0
    ELSE NatValue(SubSeq(s, 1, Len(s) - 1)) * 10 + DigitVal(s[Len(s)])

\* n <= 93: the Fibonacci numbers up to the n-th fit a uint64, that is, no
\* sum F(k-1) + F(k) with k < n wraps (cur is F(k), prev is F(k-1)).
RECURSIVE FitsFrom(_, _, _, _)
FitsFrom(prev, cur, k, n) ==
    \/ k >= n
    \/ /\ ~Lt64(Add64(prev, cur), cur)
       /\ FitsFrom(cur, Add64(prev, cur), k + 1, n)
FibFits(n) == FitsFrom(U64(0), U64(1), 1, n)
\* s is a decimal non-negative integer whose Fibonacci number fits a uint64.
FitsFib(s) ==
    /\ IsDecimalNat(s)
    /\ Len(StripZeros(s)) <= 2
    /\ FibFits(NatValue(StripZeros(s)))

\* The inputs within the explored recursion depth, as natural numbers.
InBound(n) == Le64(n, U64(MaxDepth))
ToNat(n) == n[1]

OnFib(c) == reqPc[c] # "idle" /\ reqPath[c] = "/fibonacci"
Called(c) == reqArg[c] # NoArg
OnNested(c) == reqPc[c] # "idle" /\ reqPath[c] = "/nested"
Returned(c) == reqPc[c] \in {"write", "done"}
BadRequest == <<WriteHeader(StatusBadRequest), Write(<<ErrMsg>>)>>
\* No connection has been handed a request.
NoneServed == \A c \in Conns : reqPc[c] = "idle"
\* The spans on which End has been called.
Ended ==
    UNION {{<<c, i>> : i \in {j \in 1..Len(spans[c]) : spans[c][j].ends >= 1}} :
           c \in Conns}
\* A call that is making, or waiting for, one of its two recursive calls.
Recursing(f) == f.pc \in {"call1", "wait1", "call2", "wait2"}

\* ------------------------------------------------------------- claims
\* C1: for every n of the bounded input set (0..MaxDepth), every call
\* fibonacci(ctx, n), the handler's and each recursive one, returns the n-th
\* Fibonacci number, and the call terminates: it is never stuck and it makes
\* at most 2*F(n+1)-1 calls in all.
FibonacciReturnsFib ==
    \A c \in Conns :
        /\ \A i \in 1..Len(stack[c]) :
               stack[c][i].pc = "ret" /\ InBound(stack[c][i].n)
                   => stack[c][i].val = U64(FibRef[ToNat(stack[c][i].n)])
        /\ (Called(c) /\ Returned(c) /\ InBound(reqArg[c]))
               => ret[c] = U64(FibRef[ToNat(reqArg[c])])
        /\ (Called(c) /\ reqPc[c] = "fib" /\ InBound(reqArg[c]))
               => /\ ENABLED (FibStart(c) \/ FibEnd(c) \/ FibCall(c, 1)
                              \/ FibCall(c, 2) \/ FibReturn(c))
                  /\ Len(spans[c]) <= 2 * FibRef[ToNat(reqArg[c]) + 1] - 1
FibonacciTenIs55 ==
    \E c \in Conns : /\ Called(c)
                     /\ Returned(c)
                     /\ reqArg[c] = U64(10)
                     /\ ret[c] = U64(55)

\* C2: a /fibonacci request whose n is not a number (empty included) is
\* answered 400 "n is not a number" and nothing else; fibonacci is not
\* called and no span is started.
NotANumberIs400 ==
    \A c \in Conns :
        (OnFib(c) /\ ~IsDecimalInt(reqN[c]))
            => /\ reqPc[c] \in {"/fibonacci", "done"}
               /\ reqArg[c] = NoArg
               /\ stack[c] = <<>>
               /\ spans[c] = <<>>
               /\ resp[c] = (IF reqPc[c] = "done" THEN BadRequest ELSE <<>>)
NotANumberAnswered ==
    \E c \in Conns : /\ OnFib(c)
                     /\ reqPc[c] = "done"
                     /\ reqN[c] = <<>>
                     /\ Status(c) = StatusBadRequest
                     /\ Body(c) = <<ErrMsg>>

\* C3 as stated: every /fibonacci request whose n is a decimal non-negative
\* integer is answered 200 with the decimal text of the n-th Fibonacci
\* number, the status written once and before the body.
DecimalNatIs200 ==
    \A c \in Conns :
        (OnFib(c) /\ reqPc[c] = "done" /\ IsDecimalNat(reqN[c]))
            => /\ Status(c) = StatusOK
               /\ resp[c] = <<WriteHeader(StatusOK),
                              Write(DecText(FibRef[NatValue(reqN[c])]))>>
\* C3 amended: the same for a decimal non-negative integer n of at most 93
\* (the largest n whose Fibonacci number fits a uint64), once the
\* computation has returned; nothing is written before that.
FittingNatIs200 ==
    \A c \in Conns :
        (OnFib(c) /\ FitsFib(reqN[c]))
            => /\ reqArg[c] \in {NoArg, U64(NatValue(StripZeros(reqN[c])))}
               /\ reqPc[c] = "done" =>
                      /\ Status(c) = StatusOK
                      /\ resp[c] = <<WriteHeader(StatusOK),
                                     Write(DecText(FibRef[NatValue(reqN[c])]))>>
               /\ reqPc[c] # "done" => resp[c] = <<>>
FibonacciTenAnswered ==
    \E c \in Conns : /\ OnFib(c)
                     /\ reqPc[c] = "done"
                     /\ reqN[c] = <<"1", "0">>
                     /\ Status(c) = StatusOK
                     /\ Body(c) = <<"5", "5">>

\* C4: fibonacci is called only when n denotes a non-negative integer, and
\* with that integer as its argument.
ArgIsDenotedNat ==
    \A c \in Conns :
        Called(c)
            => /\ DenotesNat(reqN[c])
               /\ FormatUint(reqArg[c]) = Canonical(reqN[c])

\* C5: every /nested request is answered 200 with an empty body and emits
\* exactly two spans, "parent" and "child"; the child is started after the
\* parent, in the parent's context, and is ended before the parent is.
NestedTwoSpans ==
    \A c \in Conns :
        OnNested(c)
            => /\ Len(spans[c]) <= 2
               /\ \A i \in 1..Len(spans[c]) : spans[c][i].ends <= 1
               /\ Len(spans[c]) >= 1
                      => /\ spans[c][ParentIdx].name = <<"parent">>
                         /\ spans[c][ParentIdx].parent = RootCtx
               /\ Len(spans[c]) = 2
                      => /\ spans[c][ChildIdx].name = <<"child">>
                         /\ spans[c][ChildIdx].parent = ParentIdx
                         /\ spans[c][ChildIdx].ends = 0
                                => spans[c][ParentIdx].ends = 0
               /\ (Len(spans[c]) >= 1 /\ spans[c][ParentIdx].ends = 1)
                      => Len(spans[c]) = 2 /\ spans[c][ChildIdx].ends = 1
               /\ reqPc[c] = "done"
                      => /\ Status(c) = StatusOK
                         /\ Body(c) = <<>>
                         /\ Len(spans[c]) = 2
                         /\ spans[c][ParentIdx].ends = 1
               /\ reqPc[c] # "done" => resp[c] = <<>>
NestedAnswered ==
    \E c \in Conns : /\ OnNested(c)
                     /\ reqPc[c] = "done"
                     /\ reqN[c] = <<"a">>
                     /\ Len(spans[c]) = 2

\* C6: the counter equals the number of timer expiries handled so far (the
\* expiries that happened, less the one waiting in the channel), it never
\* decreases, and it changes only by 1 and only in a step of the timer loop
\* that takes an expiry: no handler's step changes it.
CounterCountsExpiries ==
    /\ [](counter + (IF timerC THEN 1 ELSE 0) = fired)
    /\ [][/\ counter' >= counter
          /\ counter' # counter
                 => /\ counter' = counter + 1
                    /\ timerC /\ ~timerC'
                    /\ UNCHANGED reqVars]_vars
CounterSeenByMetric ==
    \E c \in Conns : /\ reqPc[c] = "done"
                     /\ reqPath[c] = "/metric"
                     /\ counter = 2
                     /\ Body(c) = <<"countPerSec{id=1,database=db1}", 1>>

\* C7: after a startup failure the process has ended, no later startup step
\* has run and no request has been accepted; a request is accepted only
\* when every startup step has succeeded.
StartupFailureIsFatal ==
    /\ exitCause \in {"register", "create", "exporter", "listen"}
           => mainPc = "exited" /\ NoneServed /\ ~listening
    /\ exitCause = "register"
           => /\ ~registered /\ timerPc = "none" /\ fileState = "none"
              /\ ~exporter /\ provider = "none" /\ routes = {}
    /\ exitCause = "create"
           => /\ fileState = "none" /\ ~exporter /\ provider = "none"
              /\ routes = {}
    /\ exitCause = "exporter"
           => ~exporter /\ provider = "none" /\ routes = {}
    /\ ~NoneServed
           => /\ registered /\ fileState = "open" /\ exporter
              /\ provider = "running" /\ routes = Paths /\ listening
              /\ exitCause \in {"none", "serve"}
ExporterFailureExits ==
    exitCause = "exporter" /\ mainPc = "exited" /\ fileState = "open"

\* C8: every span a handler has ended reaches traces.txt: when the server
\* has stopped and the process has exited, the tracer provider's Shutdown
\* has run, the file is closed and every ended span is in the file.
EndedSpansAreWritten ==
    (mainPc = "exited" /\ exitCause = "serve" /\ Ended # {})
        => /\ Ended \subseteq file
           /\ provider = "shutdown"
           /\ fileState = "closed"

\* C9 as stated: for n >= 2 the span "fibonacci-n" is open while the two
\* recursive calls run and is ended only after both have returned.
SpanEnclosesCalls ==
    \A c \in Conns : \A i \in 1..Len(stack[c]) :
        Recursing(stack[c][i]) => spans[c][stack[c][i].span].ends = 0
\* C9 amended: each call opens its span, ends it, and only then recurses:
\* for n >= 2 the span "fibonacci-n" is already ended when fibonacci(n-1) and
\* fibonacci(n-2) are called, so it does not enclose their spans in time;
\* their spans are its children, started in its context.
SpanEndsBeforeCalls ==
    \A c \in Conns :
        /\ \A i \in 1..Len(stack[c]) :
               LET f == stack[c][i] IN
               /\ (Recursing(f) \/ f.pc = "ret")
                      => spans[c][f.span].ends = 1 /\ f.ctx = f.span
               /\ f.pc = "end" => spans[c][f.span].ends = 0
               /\ (i > 1 /\ f.span # 0)
                      => spans[c][f.span].parent = stack[c][i - 1].span
        /\ OnFib(c) =>
               \A i \in 1..Len(spans[c]) :
                   spans[c][i].parent # RootCtx
                       => /\ spans[c][i].parent < i
                          /\ spans[c][spans[c][i].parent].ends = 1
ChildStartedAfterParentEnded ==
    \E c \in Conns :
        /\ Len(stack[c]) >= 2
        /\ Top(c).span # 0
        /\ spans[c][Top(c).span].ends = 0
        /\ spans[c][Top(c).span].parent = stack[c][Len(stack[c]) - 1].span
        /\ spans[c][stack[c][Len(stack[c]) - 1].span].ends = 1

\* C10: spans are balanced. No span is ended twice; a call that is past its
\* span.End() has ended its span; when fibonacci has returned to the handler
\* and when a handler has returned, every span of the request is ended once
\* and has been handed to the batch processor; for concurrent requests.
SpansBalanced ==
    \A c \in Conns :
        /\ \A i \in 1..Len(spans[c]) :
               /\ spans[c][i].ends <= 1
               /\ spans[c][i].ends = 1 => <<c, i>> \in batch \cup file
        /\ Returned(c) =>
               \A i \in 1..Len(spans[c]) : spans[c][i].ends = 1
        /\ \A i \in 1..Len(stack[c]) :
               stack[c][i].pc = "ret" => spans[c][stack[c][i].span].ends = 1
        /\ reqPc[c] = "done" /\ reqPath[c] = "/nested" => Len(spans[c]) = 2
        /\ (Called(c) /\ Returned(c)) => Len(spans[c]) >= 1
ConcurrentRequestsBalanced ==
    \E c, d \in Conns :
        /\ c # d
        /\ reqPc[c] = "done" /\ reqPath[c] = "/fibonacci" /\ Len(spans[c]) >= 3
        /\ reqPc[d] = "done" /\ reqPath[d] = "/nested"
====
